---------------------------- MODULE Spec2Model ----------------------------
(***************************************************************************)
(* A model of the match scoring engine of resumeai-classifier,             *)
(* backend/app/ml/job_matcher.py (class JobMatcherAI).                     *)
(*                                                                         *)
(* Numbers.  Python floats are modelled as exact rationals [n, d] in       *)
(* lowest terms with d > 0; rounding error of IEEE arithmetic is not       *)
(* modelled.  A value with d = 0 stands for a JSON value that is not a     *)
(* number (a string, null, a list): arithmetic and ordering on it raise    *)
(* TypeError in Python, which the operators below model by their "raises"  *)
(* predicates.                                                             *)
(*                                                                         *)
(* Strings.  A string is a record [w, up, pad]: the lower-case word w, a   *)
(* flag up for "has upper-case letters" and a flag pad for "has            *)
(* surrounding whitespace".  str.lower() clears up, str.strip() clears     *)
(* pad; two strings are equal in Python iff the records are equal.         *)
(***************************************************************************)
EXTENDS Integers, Sequences, FiniteSets, TLC

(***************************************************************************)
(* Rational arithmetic                                                     *)
(***************************************************************************)
Abs(x) == IF x < 0 THEN -x ELSE x

RECURSIVE Gcd(_, _)
Gcd(a, b) == IF b = 0 THEN a ELSE Gcd(b, a % b)

\* The rational n/d (d # 0) in lowest terms with a positive denominator.
Rat(n, d) ==
    LET g == Gcd(Abs(n), Abs(d))
        s == IF d < 0 THEN -1 ELSE 1
    IN  [n |-> (s * n) \div g, d |-> (s * d) \div g]

\* A JSON value that is not a number.
NonNumeric == [n |-> 0, d |-> 0]

IsNum(v) == v.d > 0

Zero == Rat(0, 1)
One == Rat(1, 1)

RAdd(a, b) == Rat(a.n * b.d + b.n * a.d, a.d * b.d)
RSub(a, b) == Rat(a.n * b.d - b.n * a.d, a.d * b.d)
RMul(a, b) == Rat(a.n * b.n, a.d * b.d)
RDiv(a, b) == Rat(a.n * b.d, a.d * b.n)
RLe(a, b) == a.n * b.d <= b.n * a.d
RLt(a, b) == a.n * b.d < b.n * a.d
RGe(a, b) == RLe(b, a)
RGt(a, b) == RLt(b, a)
\* Python's min(a, b) and max(a, b): the first argument wins a tie.
RMin(a, b) == IF RLt(b, a) THEN b ELSE a
RMax(a, b) == IF RGt(b, a) THEN b ELSE a
InUnit(v) == IsNum(v) /\ RLe(Zero, v) /\ RLe(v, One)

(***************************************************************************)
(* Strings                                                                 *)
(***************************************************************************)
Str(w, up, pad) == [w |-> w, up |-> up, pad |-> pad]
Plain(w) == Str(w, FALSE, FALSE)
EmptyStr == Plain("")
Lower(s) == [s EXCEPT !.up = FALSE]
Strip(s) == [s EXCEPT !.pad = FALSE]
\* "needle in hay" for a lower-case keyword needle: the word of hay is the
\* keyword and hay has no upper-case letter (padding does not matter).
Contains(hay, needle) == hay.w = needle /\ ~hay.up

Range(seq) == {seq[i] : i \in 1..Len(seq)}
\* seq[:k]
Prefix(seq, k) == SubSeq(seq, 1, IF k < Len(seq) THEN k ELSE Len(seq))
\* All sequences over S of length at most k.
SeqUpTo(S, k) == UNION {[1..m -> S] : m \in 0..k}
\* All orders in which a Python list(set) may enumerate the finite set S.
Orders(S) == {q \in [1..Cardinality(S) -> S] : Range(q) = S}

(***************************************************************************)
(* Bounds of the model                                                     *)
(***************************************************************************)
\* Longest candidate skill list, and longest required / preferred list.
MaxSkills == 2
\* Largest number of half years of experience (candidate and job minimum).
MaxHalfYears == 10
\* Longest education list of a candidate.
MaxEducation == 2

(***************************************************************************)
(* Dimension scorers                                                       *)
(***************************************************************************)
\* [skill.lower().strip() for skill in skills]
NormalizeSkills(skills) == [i \in 1..Len(skills) |-> Strip(Lower(skills[i]))]

\* len(job_skills_normalized)//2 : the first half of the combined job list
\* is taken as the required skills.
RequiredSkillsOf(job_skills_normalized) ==
    Prefix(job_skills_normalized, Len(job_skills_normalized) \div 2)

\* required_boost = len(required_matches) / len(required_skills)
RequiredBoost(required_matches, required_skills) ==
    Rat(Cardinality(required_matches), Len(required_skills))

CalculateSkillsSimilarity(resume_skills, job_skills) ==
    IF resume_skills = <<>> \/ job_skills = <<>> THEN Zero
    ELSE
    LET resume_skills_normalized == NormalizeSkills(resume_skills)
        job_skills_normalized == NormalizeSkills(job_skills)
        matching_skills == Range(resume_skills_normalized)
                             \cap Range(job_skills_normalized)
        union_skills == Range(resume_skills_normalized)
                          \cup Range(job_skills_normalized)
    IN  IF union_skills = {} THEN Zero
        ELSE
        LET jaccard == Rat(Cardinality(matching_skills), Cardinality(union_skills))
            required_skills == RequiredSkillsOf(job_skills_normalized)
            required_matches == matching_skills \cap Range(required_skills)
            similarity ==
                IF required_skills # <<>>
                THEN RDiv(RAdd(jaccard,
                               RequiredBoost(required_matches, required_skills)),
                          Rat(2, 1))
                ELSE jaccard
        IN  RMin(similarity, One)

\* The scorer with the gap thresholds read as strict bounds.
CalculateExperienceSimilarityStrictGap(resume_years, job_min_years) ==
    IF RGe(resume_years, job_min_years)
    THEN IF RLe(resume_years, RMul(job_min_years, Rat(3, 2)))
         THEN One
         ELSE RMax(Rat(7, 10),
                   RSub(One, RDiv(RSub(resume_years,
                                       RMul(job_min_years, Rat(3, 2))),
                                  Rat(10, 1))))
    ELSE LET gap == RSub(job_min_years, resume_years)
         IN  IF RLt(gap, One) THEN Rat(8, 10)
             ELSE IF RLt(gap, Rat(3, 1)) THEN Rat(5, 10)
             ELSE Rat(2, 10)

\* The comparisons raise TypeError on a value that is not a number (None, a
\* string); the handler then returns 0.0.
CalculateExperienceSimilarity(resume_years, job_min_years) ==
    IF ~IsNum(resume_years) \/ ~IsNum(job_min_years) THEN Zero
    ELSE
    IF RGe(resume_years, job_min_years)
    THEN IF RLe(resume_years, RMul(job_min_years, Rat(3, 2)))
         THEN One
         ELSE RMax(Rat(7, 10),
                   RSub(One, RDiv(RSub(resume_years,
                                       RMul(job_min_years, Rat(3, 2))),
                                  Rat(10, 1))))
    ELSE LET gap == RSub(job_min_years, resume_years)
         IN  IF RLe(gap, One) THEN Rat(8, 10)
             ELSE IF RLe(gap, Rat(3, 1)) THEN Rat(5, 10)
             ELSE Rat(2, 10)

\* None, the value of an argument or of a field that holds no object.
NoneValue == [none |-> TRUE]

\* education_levels.get(level.lower(), 0) with the scorer's table.
ScorerEducationRank(level) ==
    LET key == Lower(level)
    IN  IF key = Plain("high school") THEN 1
        ELSE IF key = Plain("associate") THEN 2
        ELSE IF key = Plain("bachelor") THEN 3
        ELSE IF key = Plain("master") THEN 4
        ELSE IF key = Plain("phd") THEN 5
        ELSE 0

\* The scorer without the floor of 0.3.
CalculateEducationSimilarityNoFloor(resume_education, job_education) ==
    LET resume_level == ScorerEducationRank(resume_education)
        job_level == ScorerEducationRank(job_education)
    IN  IF resume_level >= job_level THEN One
        ELSE LET gap == job_level - resume_level
             IN  RSub(One, RMul(Rat(gap, 1), Rat(2, 10)))

\* level.lower() raises AttributeError on None; the handler then returns 0.0.
CalculateEducationSimilarity(resume_education, job_education) ==
    IF resume_education = NoneValue \/ job_education = NoneValue THEN Zero
    ELSE
    LET resume_level == ScorerEducationRank(resume_education)
        job_level == ScorerEducationRank(job_education)
    IN  IF resume_level >= job_level THEN One
        ELSE LET gap == job_level - resume_level
             IN  RMax(Rat(3, 10), RSub(One, RMul(Rat(gap, 1), Rat(2, 10))))

\* education_levels of _extract_education_level, in the dict's order.
ExtractorLevels ==
    << <<"phd", 5>>, <<"doctorate", 5>>, <<"master", 4>>,
       <<"bachelor", 3>>, <<"associate", 2>>, <<"high school", 1>> >>

\* The inner loop over education_levels.items() for one degree string;
\* best = <<highest_level, highest_score>>.
RECURSIVE ScanLevels(_, _, _)
ScanLevels(degree, k, best) ==
    IF k > Len(ExtractorLevels) THEN best
    ELSE LET level == ExtractorLevels[k][1]
             score == ExtractorLevels[k][2]
         IN  ScanLevels(degree, k + 1,
                        IF Contains(degree, level) /\ score > best[2]
                        THEN <<level, score>> ELSE best)

\* The outer loop over the education entries.
RECURSIVE ScanEducation(_, _, _)
ScanEducation(education, i, best) ==
    IF i > Len(education) THEN best
    ELSE ScanEducation(education, i + 1,
                       ScanLevels(Lower(education[i]), 1, best))

\* An education entry is modelled by its "degree" string.
ExtractEducationLevel(education) ==
    IF education = <<>> THEN Plain("bachelor")
    ELSE Plain(ScanEducation(education, 1, <<"bachelor", 3>>)[1])

\* soft_skills of _calculate_culture_basic.
SoftSkills ==
    << "teamwork", "leadership", "communication", "problem solving",
       "collaboration", "initiative", "adaptability", "creativity",
       "time management", "organization", "attention to detail" >>

\* A text is modelled by the set of words (strings) occurring in it.
LowerText(text) == {Lower(t) : t \in text}
\* "skill in text" for a lower-case keyword.
TextContains(text, skill) == \E t \in text : Contains(t, skill)

\* [skill for skill in soft_skills if skill in text]
SoftSkillsIn(text) ==
    LET Mentioned(skill) == TextContains(text, skill)
    IN  SelectSeq(SoftSkills, Mentioned)

\* The baseline matching the keywords against the texts as they are written.
CalculateCultureBasicCaseSensitive(resume_text, job_text) ==
    LET resume_skills == SoftSkillsIn(resume_text)
        job_skills == SoftSkillsIn(job_text)
    IN  IF job_skills = <<>> THEN Rat(1, 2)
        ELSE LET matching_skills == Range(resume_skills) \cap Range(job_skills)
                 similarity == Rat(Cardinality(matching_skills), Len(job_skills))
             IN  RMin(similarity, One)

CalculateCultureBasic(resume_text, job_text) ==
    LET resume_lower == LowerText(resume_text)
        job_lower == LowerText(job_text)
        resume_skills == SoftSkillsIn(resume_lower)
        job_skills == SoftSkillsIn(job_lower)
    IN  IF job_skills = <<>> THEN Rat(1, 2)
        ELSE LET matching_skills == Range(resume_skills) \cap Range(job_skills)
                 similarity == Rat(Cardinality(matching_skills), Len(job_skills))
             IN  RMin(similarity, One)

(***************************************************************************)
(* The remote culture analysis.  An outcome of the HTTP call is a record   *)
(* [kind, score]:                                                          *)
(*   "exception"  the post raises (timeout, transport error)               *)
(*   "status"     a response whose status_code is not 200                  *)
(*   "malformed"  status 200, but response.json(), the path                *)
(*                ["choices"][0]["message"]["content"] or json.loads of    *)
(*                the content raises, or the content is no JSON object     *)
(*   "no_score"   status 200, a JSON object without the key "score"        *)
(*   "score"      status 200, a JSON object whose "score" is the value     *)
(*                score (any JSON value)                                   *)
(***************************************************************************)
GrokOutcome(kind, score) == [kind |-> kind, score |-> score]

\* analysis.get("score", 0.5) : the value is returned as it is.
GrokScore(outcome) ==
    IF outcome.kind = "no_score" THEN Rat(1, 2) ELSE outcome.score

\* The value _calculate_culture_with_grok returns for an outcome of the call.
CalculateCultureWithGrok(outcome, resume_text, job_text) ==
    IF outcome.kind \in {"score", "no_score"}
    THEN GrokScore(outcome)
    ELSE CalculateCultureBasic(resume_text, job_text)

(***************************************************************************)
(* The text scorer.  The BERT embedding is not modelled: an outcome is     *)
(* [raises, cosine], the cosine similarity of the two embeddings or an     *)
(* exception of the tokenizer or the model.                                *)
(***************************************************************************)
BertOutcome(raises, cosine) == [raises |-> raises, cosine |-> cosine]

\* The text scorer answering the neutral 0.5 when the embedding fails.
CalculateTextSimilarityNeutralDefault(outcome) ==
    IF outcome.raises THEN Rat(1, 2) ELSE RMax(Zero, outcome.cosine)

CalculateTextSimilarity(outcome) ==
    IF outcome.raises THEN Zero ELSE RMax(Zero, outcome.cosine)

(***************************************************************************)
(* Score maps: Python dicts from keys to values                            *)
(***************************************************************************)
EmptyMap == [k \in {} |-> Zero]
Put(map, key, value) ==
    [k \in DOMAIN map \cup {key} |-> IF k = key THEN value ELSE map[k]]
Get(map, key, default) == IF key \in DOMAIN map THEN map[key] ELSE default

(***************************************************************************)
(* Bias mitigation                                                         *)
(***************************************************************************)
MajorCities == {"new york", "san francisco", "london"}

\* The detector comparing the location without lower-casing it.
DetectPotentialBiasCaseSensitive(name, location) ==
    LET bias_score ==
            IF location # EmptyStr
               /\ \E city \in MajorCities : Contains(location, city)
            THEN Rat(5, 100) ELSE Zero
    IN  RMin(bias_score, Rat(1, 10))

DetectPotentialBias(name, location) ==
    LET bias_score ==
            IF location # EmptyStr
               /\ \E city \in MajorCities : Contains(Lower(location), city)
            THEN Rat(5, 100) ELSE Zero
    IN  RMin(bias_score, Rat(1, 10))

FairnessAdjustment(bias_score) == RMax(Zero, RSub(Rat(1, 10), bias_score))

\* The adjustment without the clamp to 1.0.
AdjustScoreUnclamped(score, fairness_adjustment) ==
    RAdd(score, fairness_adjustment)

\* mitigated_scores[key] = min(1.0, mitigated_scores[key] + fairness_adjustment)
AdjustScore(score, fairness_adjustment) ==
    RMin(One, RAdd(score, fairness_adjustment))

\* The addition raises TypeError on a value that is not a number; the
\* handler then returns the scores it was given.
BiasMitigationRaises(scores) ==
    \E key \in DOMAIN scores : key # "bias_score" /\ ~IsNum(scores[key])

ApplyBiasMitigation(scores, resume_data) ==
    LET bias_score ==
            DetectPotentialBias(Get(resume_data, "candidate_name", EmptyStr),
                                Get(resume_data, "candidate_location", EmptyStr))
        fairness_adjustment == FairnessAdjustment(bias_score)
        adjusted == [key \in DOMAIN scores |->
                        IF key # "bias_score"
                        THEN AdjustScore(scores[key], fairness_adjustment)
                        ELSE scores[key]]
    IN  IF BiasMitigationRaises(scores) THEN scores
        ELSE Put(Put(adjusted, "bias_score", bias_score),
                 "fairness_adjustment", fairness_adjustment)

\* The dict passed in, had the adjustments been made on it and not on a copy.
ScoresAfterMitigationInPlace(scores, resume_data) ==
    ApplyBiasMitigation(scores, resume_data)

\* mitigated_scores = scores.copy(): the adjustments are made on the copy,
\* the dict passed in is left as it was.
ScoresAfterMitigation(scores, resume_data) == scores

(***************************************************************************)
(* Score aggregation                                                       *)
(***************************************************************************)
\* weights of _calculate_overall_score, in hundredths, in the dict's order.
Weights ==
    << <<"skills", 35>>, <<"experience", 25>>, <<"education", 15>>,
       <<"text", 15>>, <<"culture", 10>> >>

WeightedKeys == {Weights[i][1] : i \in 1..Len(Weights)}

\* The loop over weights.items(); acc = <<overall_score, total_weight>>.
RECURSIVE AccumulateWeights(_, _, _)
AccumulateWeights(scores, i, acc) ==
    IF i > Len(Weights) THEN acc
    ELSE LET key == Weights[i][1]
             weight == Rat(Weights[i][2], 100)
         IN  AccumulateWeights(scores, i + 1,
                 IF key \in DOMAIN scores
                 THEN <<RAdd(acc[1], RMul(scores[key], weight)),
                        RAdd(acc[2], weight)>>
                 ELSE acc)

\* scores[key] * weight raises TypeError on a value that is not a number;
\* the handler then returns 0.0.
OverallScoreRaises(scores) ==
    \E key \in WeightedKeys \cap DOMAIN scores : ~IsNum(scores[key])

\* The aggregator dividing by the sum of all weights: an absent dimension
\* counts as zero.
CalculateOverallScoreAbsentAsZero(scores) ==
    IF OverallScoreRaises(scores) THEN Zero
    ELSE AccumulateWeights(scores, 1, <<Zero, Zero>>)[1]

CalculateOverallScore(scores) ==
    IF OverallScoreRaises(scores) THEN Zero
    ELSE LET acc == AccumulateWeights(scores, 1, <<Zero, Zero>>)
         IN  IF RGt(acc[2], Zero) THEN RDiv(acc[1], acc[2]) ELSE Zero

(***************************************************************************)
(* Explanations.  A fixed explanation sentence is modelled by the name of  *)
(* its tier.                                                               *)
(***************************************************************************)
\* The tiers with their bounds read as strict ones.
OverallTierStrictBounds(overall_score) ==
    IF RGt(overall_score, Rat(8, 10)) THEN "excellent"
    ELSE IF RGt(overall_score, Rat(6, 10)) THEN "good"
    ELSE IF RGt(overall_score, Rat(4, 10)) THEN "moderate"
    ELSE "limited"

OverallTier(overall_score) ==
    IF RGe(overall_score, Rat(8, 10)) THEN "excellent"
    ELSE IF RGe(overall_score, Rat(6, 10)) THEN "good"
    ELSE IF RGe(overall_score, Rat(4, 10)) THEN "moderate"
    ELSE "limited"

DimensionTier(score) ==
    IF RGe(score, Rat(8, 10)) THEN "strong"
    ELSE IF RGe(score, Rat(5, 10)) THEN "partial"
    ELSE "weak"

\* A comparison with a value that is not a number raises TypeError; the
\* handler then returns only the "unable" sentence.
ExplanationsRaise(scores) ==
    \/ ~IsNum(Get(scores, "skills", Zero))
    \/ ~IsNum(Get(scores, "experience", Zero))

GenerateExplanations(scores) ==
    IF ExplanationsRaise(scores) THEN [k \in {"overall"} |-> "unable"]
    ELSE [k \in {"overall", "skills", "experience"} |->
            IF k = "overall" THEN OverallTier(CalculateOverallScore(scores))
            ELSE DimensionTier(Get(scores, k, Zero))]

(***************************************************************************)
(* Match insights.  skill_matches and missing_skills are list(set): the    *)
(* order of a Python set of strings is not fixed by the language, so the   *)
(* two orders are parameters.  A sentence is modelled by a record          *)
(* [kind, skills, gap] holding what is formatted into it.                  *)
(***************************************************************************)
\* set(skill.lower() for skill in skills)
InsightSkillSet(skills) == {Lower(skills[i]) : i \in 1..Len(skills)}

InsightResumeSkills(resume_data) ==
    InsightSkillSet(Get(resume_data, "skills", <<>>))
InsightJobSkills(job_data) ==
    InsightSkillSet(Get(job_data, "required_skills", <<>>)
                      \o Get(job_data, "preferred_skills", <<>>))

ExperienceGap(resume_data, job_data) ==
    RMax(Zero, RSub(Get(job_data, "min_experience_years", Zero),
                    Get(resume_data, "experience_years", Zero)))

\* The subtraction raises TypeError on years that are not numbers.
ExperienceGapRaises(resume_data, job_data) ==
    \/ ~IsNum(Get(job_data, "min_experience_years", Zero))
    \/ ~IsNum(Get(resume_data, "experience_years", Zero))

Sentence(kind, skills, gap) == [kind |-> kind, skills |-> skills, gap |-> gap]

\* The comparisons of the strengths and weaknesses raise TypeError on a
\* value that is not a number; the handler of _generate_match_insights
\* then returns {}.
InsightsRaise(scores) ==
    \E key \in {"skills", "experience", "culture"} : ~IsNum(Get(scores, key, Zero))

NoInsights ==
    [failed |-> TRUE, skill_matches |-> <<>>, missing_skills |-> <<>>,
     experience_gap |-> Zero, strengths |-> <<>>, weaknesses |-> <<>>,
     recommendations |-> <<>>]

\* A dimension counted as a strength from a score of 0.5.
IsStrengthFromHalf(score) == RGe(score, Rat(5, 10))

\* scores.get(key, 0) >= 0.7 : a strength, otherwise a weakness.
IsStrength(score) == RGe(score, Rat(7, 10))

GenerateMatchInsights(resume_data, job_data, scores, skill_matches, missing_skills) ==
    LET experience_gap == ExperienceGap(resume_data, job_data)
        Strong(key) == IsStrength(Get(scores, key, Zero))
        strengths ==
            (IF Strong("skills") THEN <<"skills">> ELSE <<>>)
            \o (IF Strong("experience") THEN <<"experience">> ELSE <<>>)
            \o (IF Strong("culture") THEN <<"culture">> ELSE <<>>)
        weaknesses ==
            (IF Strong("skills") THEN <<>> ELSE <<"skills">>)
            \o (IF Strong("experience") THEN <<>> ELSE <<"experience">>)
            \o (IF Strong("culture") THEN <<>> ELSE <<"culture">>)
        recommendations ==
            (IF missing_skills # <<>>
             THEN <<Sentence("training", Prefix(missing_skills, 3), Zero)>>
             ELSE <<>>)
            \o (IF RGt(experience_gap, Zero)
                THEN <<Sentence("experience", <<>>, experience_gap)>> ELSE <<>>)
            \o (IF RLt(Get(scores, "culture", Zero), Rat(5, 10))
                THEN <<Sentence("culture", <<>>, Zero)>> ELSE <<>>)
    IN  IF ExperienceGapRaises(resume_data, job_data) \/ InsightsRaise(scores)
        THEN NoInsights
        ELSE [failed |-> FALSE, skill_matches |-> skill_matches,
              missing_skills |-> missing_skills,
              experience_gap |-> experience_gap, strengths |-> strengths,
              weaknesses |-> weaknesses, recommendations |-> recommendations]

\* The dict _extract_resume_features returns (the entries the scorers read).
ExtractResumeFeatures(resume_data) ==
    [text |-> Get(resume_data, "extracted_text", {}),
     skills_list |-> Get(resume_data, "skills", <<>>),
     experience_years |-> Get(resume_data, "experience_years", Zero),
     education_level |->
         ExtractEducationLevel(Get(resume_data, "education", <<>>))]

\* The dict _extract_job_features returns (the entries the scorers read).
ExtractJobFeatures(job_data) ==
    [text |-> Get(job_data, "description", {}),
     all_skills |-> Get(job_data, "required_skills", <<>>)
                      \o Get(job_data, "preferred_skills", <<>>),
     min_experience |-> Get(job_data, "min_experience_years", Zero),
     education_level |-> Get(job_data, "education_level", Plain("bachelor"))]

\* The dict match_resume_to_job returns.
MatchResult(overall_score, scores, explanations, insight) ==
    [overall_score |-> overall_score,
     skills_score |-> Get(scores, "skills", Zero),
     experience_score |-> Get(scores, "experience", Zero),
     education_score |-> Get(scores, "education", Zero),
     culture_score |-> Get(scores, "culture", Zero),
     skill_matches |-> insight.skill_matches,
     missing_skills |-> insight.missing_skills,
     experience_gap |-> insight.experience_gap,
     match_explanation |-> Get(explanations, "overall", ""),
     strengths |-> insight.strengths,
     weaknesses |-> insight.weaknesses,
     recommendations |-> insight.recommendations,
     bias_score |-> Get(scores, "bias_score", Zero),
     fairness_adjustment |-> Get(scores, "fairness_adjustment", Zero),
     detailed_scores |-> scores,
     explanations |-> explanations]

(***************************************************************************)
(* The state of one call of match_resume_to_job                            *)
(***************************************************************************)
VARIABLES
    resume_data,      \* the resume_data argument
    job_data,         \* the job_data argument
    env,              \* settings.GROK_API_KEY and what the remote call and
                      \* the embedding model answer in this call
    pc,               \* the statement the call is at
    resume_features,  \* _extract_resume_features(resume_data)
    job_features,     \* _extract_job_features(job_data)
    scores,           \* the dict built by _calculate_similarity_scores
    mitigated,        \* bias_mitigated_scores
    explanations,     \* the dict of _generate_explanations
    overall,          \* overall_score
    result,           \* the dict returned
    grok_requests,    \* number of requests sent to the remote service
    suspended,        \* the frame of the other call of the instance, while
                      \* it waits at an await (NoFrame: there is none)
    db,               \* the database behind the endpoints' sessions
    handlers,         \* the create_match handlers between query and commit
    response          \* the last response sent by an endpoint

vars == <<resume_data, job_data, env, pc, resume_features, job_features,
          scores, mitigated, explanations, overall, result, grok_requests, suspended, db, handlers, response>>

\* The store and the server before the first request: the tables are empty,
\* each of the server's worker processes is idle and nothing was answered.
\* unique_matches tells whether the matches table refuses a second row of
\* the same user, resume and job.
StoreAfterStartup(unique_matches, workers) ==
    /\ db = [users |-> {}, jobs |-> {}, job_seq |-> 0, resumes |-> {},
             matches |-> {}, unique_matches |-> unique_matches]
    /\ handlers = [w \in 1..workers |->
                      [user_id |-> 0, resume_id |-> 0, job_id |-> 0]]
    /\ response = [endpoint |-> "none", user_id |-> 0, args |-> <<>>,
                   raised |-> 0, status |-> 0, detail |-> "none",
                   records |-> {}]

(***************************************************************************)
(* Inputs                                                                  *)
(***************************************************************************)
\* Skill strings: "python", " Python" (other case, padded) and "sql".
SkillStrings == {Plain("python"), Str("python", TRUE, TRUE), Plain("sql")}
SkillLists == SeqUpTo(SkillStrings, MaxSkills)

HalfYears == {Rat(k, 2) : k \in 0..MaxHalfYears}

\* Degree strings of education entries: one per keyword of the extractor,
\* one in capitals and one holding no keyword.
DegreeStrings ==
    {Plain("phd"), Plain("doctorate"), Str("master", TRUE, FALSE),
     Plain("bachelor"), Plain("associate"), Plain("high school"),
     Plain("diploma")}
EducationLists == SeqUpTo(DegreeStrings, MaxEducation)

\* Values of the job's education_level.
JobLevels ==
    {Plain("high school"), Plain("associate"), Plain("bachelor"),
     Plain("master"), Str("phd", TRUE, FALSE), Plain("doctorate"),
     Plain("none")}

\* Words of the free texts: two soft skills (one capitalised) and another word.
TextWords == {Plain("teamwork"), Str("leadership", TRUE, FALSE), Plain("sales")}
Texts == SUBSET TextWords

Locations == {EmptyStr, Plain("austin"), Str("london", TRUE, FALSE)}

\* Values a remote answer may carry as its "score".
RemoteScores == {Zero, Rat(1, 2), One, Rat(-1, 1), Rat(2, 1), NonNumeric}
GrokOutcomes ==
    {GrokOutcome(kind, Zero) : kind \in {"exception", "status", "malformed", "no_score"}}
    \cup {GrokOutcome("score", v) : v \in RemoteScores}

BertOutcomes ==
    {BertOutcome(TRUE, Zero)}
    \cup {BertOutcome(FALSE, c) : c \in {Rat(-1, 2), Rat(1, 2), One}}

\* The profile and the posting of the end-to-end scenario.
BaseResume ==
    [skills |-> <<Plain("python"), Plain("sql")>>,
     experience_years |-> Rat(5, 1),
     education |-> <<Plain("bachelor")>>,
     extracted_text |-> {Plain("teamwork")},
     candidate_name |-> Plain("ada"),
     candidate_location |-> EmptyStr]
BaseJob ==
    [required_skills |-> <<Plain("python"), Plain("sql")>>,
     preferred_skills |-> <<>>,
     min_experience_years |-> Rat(3, 1),
     education_level |-> Plain("bachelor"),
     description |-> {Plain("teamwork"), Plain("sales")}]
\* External inference disabled, the embedding answering a fixed cosine.
BaseEnv ==
    [grok_key |-> FALSE, grok |-> GrokOutcome("exception", Zero),
     bert |-> BertOutcome(FALSE, Rat(1, 2))]

\* Calls that differ from the scenario in the skill lists only.
SkillInputs ==
    {<<[BaseResume EXCEPT !.skills = rs],
       [BaseJob EXCEPT !.required_skills = req, !.preferred_skills = pref],
       BaseEnv>> : rs \in SkillLists, req \in SkillLists, pref \in SkillLists}

\* Calls that differ in the years of experience only.
ExperienceInputs ==
    {<<[BaseResume EXCEPT !.experience_years = y],
       [BaseJob EXCEPT !.min_experience_years = m],
       BaseEnv>> : y \in HalfYears, m \in HalfYears}

\* Calls that differ in the education only.
EducationInputs ==
    {<<[BaseResume EXCEPT !.education = e],
       [BaseJob EXCEPT !.education_level = l],
       BaseEnv>> : e \in EducationLists, l \in JobLevels}

\* Calls that differ in the texts, the location and the answers of the
\* remote service and of the embedding model.
Environments ==
    {[grok_key |-> FALSE, grok |-> GrokOutcome("exception", Zero), bert |-> b] :
        b \in BertOutcomes}
    \cup {[grok_key |-> TRUE, grok |-> g, bert |-> b] :
            g \in GrokOutcomes, b \in BertOutcomes}
EnvironmentInputs ==
    {<<[BaseResume EXCEPT !.extracted_text = rt[1], !.candidate_location = loc,
                          !.skills = sk],
       [BaseJob EXCEPT !.description = rt[2]],
       e>> : rt \in {<<{}, {}>>,
                     <<{Plain("teamwork")}, {Plain("teamwork"), Plain("sales")}>>,
                     <<{Plain("sales")}, {Str("leadership", TRUE, FALSE), Plain("teamwork")}>>,
                     <<{Plain("teamwork")}, {Str("leadership", TRUE, FALSE), Plain("teamwork")}>>},
             loc \in Locations,
             sk \in {<<>>, <<Plain("go")>>, <<Plain("python")>>,
                     <<Plain("python"), Plain("sql")>>},
             e \in Environments}

\* Calls that differ in the years of experience, with the remote culture
\* service enabled and answering a number or a value that is none.
RemoteExperienceInputs ==
    {<<[BaseResume EXCEPT !.experience_years = y],
       [BaseJob EXCEPT !.min_experience_years = m],
       [BaseEnv EXCEPT !.grok_key = TRUE, !.grok = GrokOutcome("score", v)]>> :
        y \in HalfYears, m \in HalfYears, v \in {Rat(1, 2), NonNumeric}}

Inputs == SkillInputs \cup ExperienceInputs \cup EducationInputs
            \cup EnvironmentInputs \cup RemoteExperienceInputs

NoFeatures == [k \in {} |-> Zero]
NoFrame == [k \in {} |-> Zero]

\* The state before the first statement of the call.
Start(input) ==
    /\ resume_data = input[1]
    /\ job_data = input[2]
    /\ env = input[3]
    /\ pc = "extract"
    /\ resume_features = NoFeatures
    /\ job_features = NoFeatures
    /\ scores = EmptyMap
    /\ mitigated = EmptyMap
    /\ explanations = EmptyMap
    /\ overall = Zero
    /\ result = EmptyMap
    /\ grok_requests = 0
    /\ suspended = NoFrame
    /\ StoreAfterStartup(FALSE, 0)

Init == \E input \in Inputs : Start(input)

(***************************************************************************)
(* The statements of match_resume_to_job, in program order                 *)
(***************************************************************************)
\* _extract_resume_features and _extract_job_features.
ExtractFeatures ==
    /\ pc = "extract"
    /\ resume_data # NoneValue /\ job_data # NoneValue
    /\ resume_features' = ExtractResumeFeatures(resume_data)
    /\ job_features' = ExtractJobFeatures(job_data)
    /\ pc' = "skills"
    /\ UNCHANGED <<resume_data, job_data, env, scores, mitigated, explanations,
                   overall, result, grok_requests, suspended, db, handlers, response>>

\* The scorers' sequence leaving the culture scorer out: the text score is
\* followed by bias mitigation.
StoreScoreSkippingCulture(key, value, next) ==
    /\ scores' = Put(scores, key, value)
    /\ pc' = IF next = "culture" THEN "bias" ELSE next
    /\ UNCHANGED <<resume_data, job_data, env, resume_features, job_features,
                   mitigated, explanations, overall, result, suspended, db, handlers, response>>

\* The culture scorer trying the remote service again after a failed call.
StoreScoreRetryingRemote(key, value, next) ==
    /\ IF pc = "await_grok" /\ env.grok.kind \notin {"score", "no_score"}
          /\ grok_requests < 2
       THEN scores' = scores /\ pc' = "culture"
       ELSE scores' = Put(scores, key, value) /\ pc' = next
    /\ UNCHANGED <<resume_data, job_data, env, resume_features, job_features,
                   mitigated, explanations, overall, result, suspended, db, handlers, response>>

\* One scorer of _calculate_similarity_scores stores its value.
StoreScore(key, value, next) ==
    /\ scores' = Put(scores, key, value)
    /\ pc' = next
    /\ UNCHANGED <<resume_data, job_data, env, resume_features, job_features,
                   mitigated, explanations, overall, result, suspended, db, handlers, response>>

ScoreSkills ==
    /\ pc = "skills"
    /\ StoreScore("skills",
                  CalculateSkillsSimilarity(resume_features.skills_list,
                                            job_features.all_skills),
                  "experience")
    /\ UNCHANGED grok_requests

ScoreExperience ==
    /\ pc = "experience"
    /\ StoreScore("experience",
                  CalculateExperienceSimilarity(resume_features.experience_years,
                                                job_features.min_experience),
                  "education")
    /\ UNCHANGED grok_requests

ScoreEducation ==
    /\ pc = "education"
    /\ StoreScore("education",
                  CalculateEducationSimilarity(resume_features.education_level,
                                               job_features.education_level),
                  "text")
    /\ UNCHANGED grok_requests

ScoreText ==
    /\ pc = "text"
    /\ StoreScore("text", CalculateTextSimilarity(env.bert), "culture")
    /\ UNCHANGED grok_requests

\* _calculate_culture_similarity without GROK_API_KEY: the keyword baseline.
ScoreCultureBasic ==
    /\ pc = "culture"
    /\ ~env.grok_key
    /\ StoreScore("culture",
                  CalculateCultureBasic(resume_features.text, job_features.text),
                  "bias")
    /\ UNCHANGED grok_requests

\* _calculate_culture_with_grok sends its request and awaits the answer.
SendGrokRequest ==
    /\ pc = "culture"
    /\ env.grok_key
    /\ grok_requests' = grok_requests + 1
    /\ pc' = "await_grok"
    /\ UNCHANGED <<resume_data, job_data, env, resume_features, job_features,
                   scores, mitigated, explanations, overall, result, suspended, db, handlers, response>>

\* Status 200 with a JSON object: its "score" (or 0.5) is the culture score.
GrokAnswers ==
    /\ pc = "await_grok"
    /\ env.grok.kind \in {"score", "no_score"}
    /\ StoreScore("culture",
                  CalculateCultureWithGrok(env.grok, resume_features.text,
                                           job_features.text),
                  "bias")
    /\ UNCHANGED grok_requests

\* Any other outcome of the call: the keyword baseline.
GrokFallsBack ==
    /\ pc = "await_grok"
    /\ env.grok.kind \notin {"score", "no_score"}
    /\ StoreScore("culture",
                  CalculateCultureWithGrok(env.grok, resume_features.text,
                                           job_features.text),
                  "bias")
    /\ UNCHANGED grok_requests

MitigateBias ==
    /\ pc = "bias"
    /\ mitigated' = ApplyBiasMitigation(scores, resume_data)
    /\ scores' = ScoresAfterMitigation(scores, resume_data)
    /\ pc' = "explain"
    /\ UNCHANGED <<resume_data, job_data, env, resume_features, job_features,
                   explanations, overall, result, grok_requests, suspended, db, handlers, response>>

\* The explanations generated from the raw scores instead of the mitigated
\* ones.
ExplainRawScores ==
    /\ pc = "explain"
    /\ explanations' = GenerateExplanations(scores)
    /\ pc' = "overall"
    /\ UNCHANGED <<resume_data, job_data, env, resume_features, job_features,
                   scores, mitigated, overall, result, grok_requests, suspended, db, handlers, response>>

Explain ==
    /\ pc = "explain"
    /\ explanations' = GenerateExplanations(mitigated)
    /\ pc' = "overall"
    /\ UNCHANGED <<resume_data, job_data, env, resume_features, job_features,
                   scores, mitigated, overall, result, grok_requests, suspended, db, handlers, response>>

Aggregate ==
    /\ pc = "overall"
    /\ overall' = CalculateOverallScore(mitigated)
    /\ pc' = "insights"
    /\ UNCHANGED <<resume_data, job_data, env, resume_features, job_features,
                   scores, mitigated, explanations, result, grok_requests, suspended, db, handlers, response>>

\* The dicts the return statement can produce in the current state: one for
\* each order in which list(set) may enumerate the matching and the missing
\* skills (the order of a set of strings depends on the interpreter's hash
\* seed).
ReturnableResults ==
    {MatchResult(overall, mitigated, explanations,
                 GenerateMatchInsights(resume_data, job_data, mitigated,
                                       lists[1], lists[2])) :
        lists \in Orders(InsightResumeSkills(resume_data)
                            \cap InsightJobSkills(job_data))
                 \X Orders(InsightJobSkills(job_data)
                             \ InsightResumeSkills(resume_data))}

\* _generate_match_insights and the return statement.
ReturnResult ==
    /\ pc = "insights"
    /\ result' \in ReturnableResults
    /\ pc' = "done"
    /\ UNCHANGED <<resume_data, job_data, env, resume_features, job_features,
                   scores, mitigated, explanations, overall, grok_requests, suspended, db, handlers, response>>

Next ==
    \/ ExtractFeatures
    \/ ScoreSkills
    \/ ScoreExperience
    \/ ScoreEducation
    \/ ScoreText
    \/ ScoreCultureBasic
    \/ SendGrokRequest
    \/ GrokAnswers
    \/ GrokFallsBack
    \/ MitigateBias
    \/ Explain
    \/ Aggregate
    \/ ReturnResult

Spec == Init /\ [][Next]_vars

\* resume_data.get or job_data.get raises AttributeError on None; the
\* handlers log it and raise it again, out of match_resume_to_job.
ExtractRaises ==
    /\ pc = "extract"
    /\ resume_data = NoneValue \/ job_data = NoneValue
    /\ result' = [error |-> "AttributeError"]
    /\ pc' = "raised"
    /\ UNCHANGED <<resume_data, job_data, env, resume_features, job_features,
                   scores, mitigated, explanations, overall, grok_requests, suspended, db, handlers, response>>

Returned == pc = "done"

(***************************************************************************)
(* The score aggregator on its own: _calculate_overall_score applied to    *)
(* any score map, also one in which dimensions are absent.                 *)
(***************************************************************************)
AggregatorValues == {Zero, Rat(1, 2), One}
AggregatorKeys == WeightedKeys \cup {"bias_score"}
ScoreMaps == UNION {[keys -> AggregatorValues] : keys \in SUBSET AggregatorKeys}

InitAggregate ==
    \E map \in ScoreMaps :
        /\ resume_data = BaseResume
        /\ job_data = BaseJob
        /\ env = BaseEnv
        /\ pc = "overall"
        /\ resume_features = NoFeatures
        /\ job_features = NoFeatures
        /\ scores = EmptyMap
        /\ mitigated = map
        /\ explanations = EmptyMap
        /\ overall = Zero
        /\ result = EmptyMap
        /\ grok_requests = 0
        /\ suspended = NoFrame
        /\ StoreAfterStartup(FALSE, 0)

NextAggregate == Aggregate

SpecAggregate == InitAggregate /\ [][NextAggregate]_vars

(***************************************************************************)
(* The aggregation and the return statement on any score map: the tail of  *)
(* match_resume_to_job from _calculate_overall_score on.                   *)
(***************************************************************************)
NextReport == Aggregate \/ ReturnResult

SpecReport == InitAggregate /\ [][NextReport]_vars

(***************************************************************************)
(* The education scorer on its own: _calculate_education_similarity        *)
(* applied to any two level strings.                                       *)
(***************************************************************************)
LevelWords ==
    {"high school", "associate", "bachelor", "master", "phd", "doctorate", "none"}
LevelStrings == {Str(w, up, FALSE) : w \in LevelWords, up \in BOOLEAN}

InitEducation ==
    \E resume_education \in LevelStrings, job_education \in LevelStrings :
        /\ resume_data = BaseResume
        /\ job_data = BaseJob
        /\ env = BaseEnv
        /\ pc = "education"
        /\ resume_features =
             [text |-> {}, skills_list |-> <<>>, experience_years |-> Zero,
              education_level |-> resume_education]
        /\ job_features =
             [text |-> {}, all_skills |-> <<>>, min_experience |-> Zero,
              education_level |-> job_education]
        /\ scores = EmptyMap
        /\ mitigated = EmptyMap
        /\ explanations = EmptyMap
        /\ overall = Zero
        /\ result = EmptyMap
        /\ grok_requests = 0
        /\ suspended = NoFrame
        /\ StoreAfterStartup(FALSE, 0)

NextEducation == ScoreEducation

SpecEducation == InitEducation /\ [][NextEducation]_vars

(***************************************************************************)
(* The explanations on their own: _generate_explanations applied to score  *)
(* maps whose values are tenths.                                           *)
(***************************************************************************)
Tenths == {Rat(k, 10) : k \in 0..10}
ExplainedMaps ==
    UNION {[keys -> Tenths] : keys \in SUBSET {"skills", "experience"}}

InitExplain ==
    \E map \in ExplainedMaps :
        /\ resume_data = BaseResume
        /\ job_data = BaseJob
        /\ env = BaseEnv
        /\ pc = "explain"
        /\ resume_features = NoFeatures
        /\ job_features = NoFeatures
        /\ scores = EmptyMap
        /\ mitigated = map
        /\ explanations = EmptyMap
        /\ overall = Zero
        /\ result = EmptyMap
        /\ grok_requests = 0
        /\ suspended = NoFrame
        /\ StoreAfterStartup(FALSE, 0)

NextExplain == Explain

SpecExplain == InitExplain /\ [][NextExplain]_vars

(***************************************************************************)
(* The keyword baseline on its own: _calculate_culture_basic applied to    *)
(* any two texts.                                                          *)
(***************************************************************************)
InitCulture ==
    \E resume_text \in Texts, job_text \in Texts :
        /\ resume_data = BaseResume
        /\ job_data = BaseJob
        /\ env = BaseEnv
        /\ pc = "culture"
        /\ resume_features =
             [text |-> resume_text, skills_list |-> <<>>,
              experience_years |-> Zero, education_level |-> Plain("bachelor")]
        /\ job_features =
             [text |-> job_text, all_skills |-> <<>>, min_experience |-> Zero,
              education_level |-> Plain("bachelor")]
        /\ scores = EmptyMap
        /\ mitigated = EmptyMap
        /\ explanations = EmptyMap
        /\ overall = Zero
        /\ result = EmptyMap
        /\ grok_requests = 0
        /\ suspended = NoFrame
        /\ StoreAfterStartup(FALSE, 0)

NextCulture == ScoreCultureBasic

SpecCulture == InitCulture /\ [][NextCulture]_vars

(***************************************************************************)
(* The call on inputs that are None, that lack fields or hold empty ones,  *)
(* and on inputs and answers that make one scorer fail.                    *)
(***************************************************************************)
\* A dict without some of its keys.
Without(dict, keys) == [k \in DOMAIN dict \ keys |-> dict[k]]

\* A profile and a posting whose fields are all empty.
EmptyResume ==
    [skills |-> <<>>,
     experience_years |-> Zero,
     education |-> <<>>,
     extracted_text |-> {},
     candidate_name |-> EmptyStr,
     candidate_location |-> EmptyStr]
EmptyJob ==
    [required_skills |-> <<>>,
     preferred_skills |-> <<>>,
     min_experience_years |-> Zero,
     education_level |-> EmptyStr,
     description |-> {}]

\* Calls in which one argument is None.
NoneInputs ==
    {<<NoneValue, BaseJob, BaseEnv>>, <<BaseResume, NoneValue, BaseEnv>>,
     <<NoneValue, NoneValue, BaseEnv>>}

\* Calls in which one argument lacks any of its keys, the other being the
\* scenario's, an empty one or {}.
SparseResumes ==
    {Without(r, keys) : r \in {BaseResume, EmptyResume},
                        keys \in SUBSET DOMAIN BaseResume}
SparseJobs ==
    {Without(j, keys) : j \in {BaseJob, EmptyJob},
                        keys \in SUBSET DOMAIN BaseJob}
SparseInputs ==
    {<<r, j, BaseEnv>> : r \in SparseResumes, j \in {BaseJob, EmptyJob, EmptyMap}}
    \cup {<<r, j, BaseEnv>> : r \in {BaseResume, EmptyResume, EmptyMap},
                              j \in SparseJobs}

\* The scenario with values that make a scorer raise: years that are no
\* number, a job education_level of None, an embedding model that raises,
\* and every answer of the remote culture service.
FailingResumes ==
    {BaseResume, [BaseResume EXCEPT !.experience_years = NonNumeric]}
FailingJobs ==
    {BaseJob, [BaseJob EXCEPT !.min_experience_years = NonNumeric],
     [BaseJob EXCEPT !.education_level = NoneValue]}
FailingEnvironments ==
    {[BaseEnv EXCEPT !.bert = b] : b \in {BaseEnv.bert, BertOutcome(TRUE, Zero)}}
    \cup {[BaseEnv EXCEPT !.grok_key = TRUE, !.grok = g, !.bert = b] :
            g \in GrokOutcomes, b \in {BaseEnv.bert, BertOutcome(TRUE, Zero)}}
FailureInputs ==
    {<<r, j, e>> : r \in FailingResumes, j \in FailingJobs,
                   e \in FailingEnvironments}

RobustInputs == NoneInputs \cup SparseInputs \cup FailureInputs

InitRobust == \E input \in RobustInputs : Start(input)

NextRobust == Next \/ ExtractRaises

SpecRobust == InitRobust /\ [][NextRobust]_vars

(***************************************************************************)
(* Two calls of match_resume_to_job on one instance, interleaved.  The     *)
(* variables of the call hold the frame of the call that runs; the frame   *)
(* of the other call is in suspended.  The calls share the instance only:  *)
(* no statement of the call assigns an attribute of self, and each call    *)
(* opens its own httpx client.  A switch is allowed between any two        *)
(* statements, which includes the awaits at which the event loop can make  *)
(* it.                                                                     *)
(***************************************************************************)
Frame ==
    [resume_data |-> resume_data, job_data |-> job_data, env |-> env,
     pc |-> pc, resume_features |-> resume_features,
     job_features |-> job_features, scores |-> scores,
     mitigated |-> mitigated, explanations |-> explanations,
     overall |-> overall, result |-> result, grok_requests |-> grok_requests]

\* The frame of a call before its first statement.
StartFrame(input) ==
    [resume_data |-> input[1], job_data |-> input[2], env |-> input[3],
     pc |-> "extract", resume_features |-> NoFeatures,
     job_features |-> NoFeatures, scores |-> EmptyMap, mitigated |-> EmptyMap,
     explanations |-> EmptyMap, overall |-> Zero, result |-> EmptyMap,
     grok_requests |-> 0]

\* The event loop suspends the running call and resumes the other one.
Switch ==
    /\ suspended # NoFrame
    /\ suspended.pc # "done"
    /\ suspended' = Frame
    /\ resume_data' = suspended.resume_data
    /\ job_data' = suspended.job_data
    /\ env' = suspended.env
    /\ pc' = suspended.pc
    /\ resume_features' = suspended.resume_features
    /\ job_features' = suspended.job_features
    /\ scores' = suspended.scores
    /\ mitigated' = suspended.mitigated
    /\ explanations' = suspended.explanations
    /\ overall' = suspended.overall
    /\ result' = suspended.result
    /\ grok_requests' = suspended.grok_requests
    /\ UNCHANGED <<db, handlers, response>>

\* The calls that are interleaved: the scenario for a candidate of no
\* location or of London, without the remote service and with three of its
\* outcomes.
ConcurrentInputs ==
    {<<[BaseResume EXCEPT !.candidate_location = loc], BaseJob, e>> :
        loc \in {EmptyStr, Str("london", TRUE, FALSE)},
        e \in {BaseEnv}
               \cup {[BaseEnv EXCEPT !.grok_key = TRUE, !.grok = g] :
                       g \in {GrokOutcome("exception", Zero),
                              GrokOutcome("score", Rat(1, 2)),
                              GrokOutcome("score", NonNumeric)}}}

InitConcurrent ==
    \E first \in ConcurrentInputs, second \in ConcurrentInputs :
        /\ resume_data = first[1]
        /\ job_data = first[2]
        /\ env = first[3]
        /\ pc = "extract"
        /\ resume_features = NoFeatures
        /\ job_features = NoFeatures
        /\ scores = EmptyMap
        /\ mitigated = EmptyMap
        /\ explanations = EmptyMap
        /\ overall = Zero
        /\ result = EmptyMap
        /\ grok_requests = 0
        /\ suspended = StartFrame(second)
        /\ StoreAfterStartup(FALSE, 0)

NextConcurrent == Next \/ Switch

SpecConcurrent == InitConcurrent /\ [][NextConcurrent]_vars

(***************************************************************************)
(* Properties                                                              *)
(***************************************************************************)
\* The canonical form of a skill list: lower-cased and trimmed, as a set.
CanonicalSkills(skills) == {Strip(Lower(skills[i])) : i \in 1..Len(skills)}
CandidateSkills == CanonicalSkills(resume_data.skills)
JobSkills ==
    CanonicalSkills(job_data.required_skills \o job_data.preferred_skills)

\* The call is the end-to-end scenario: skills {python, sql}, 5 years,
\* bachelor, against required [python, sql], no preferred skills, 3 years,
\* bachelor.
ScenarioCall ==
    /\ resume_data.skills = <<Plain("python"), Plain("sql")>>
    /\ resume_data.experience_years = Rat(5, 1)
    /\ resume_data.education = <<Plain("bachelor")>>
    /\ job_data.required_skills = <<Plain("python"), Plain("sql")>>
    /\ job_data.preferred_skills = <<>>
    /\ job_data.min_experience_years = Rat(3, 1)
    /\ job_data.education_level = Plain("bachelor")

\* C1: for every input and every outcome of the remote culture call, the
\* returned overall_score and every returned dimension score (skills,
\* experience, education, culture, and text in detailed_scores) lie in [0,1].
C1_ScoresInUnitInterval ==
    Returned =>
        /\ InUnit(result.overall_score)
        /\ InUnit(result.skills_score)
        /\ InUnit(result.experience_score)
        /\ InUnit(result.education_score)
        /\ InUnit(result.culture_score)
        /\ "text" \in DOMAIN result.detailed_scores
              => InUnit(result.detailed_scores["text"])

\* C2 as stated: the scenario returns skills_score 1.0, experience_score
\* 0.95, education_score 1.0, missing_skills [] and, with text and culture
\* absent from the score map, overall_score (.35 + .95*.25 + .15) / .75.
C2_ScenarioAsStated ==
    (ScenarioCall /\ Returned) =>
        /\ result.skills_score = One
        /\ result.experience_score = Rat(95, 100)
        /\ result.education_score = One
        /\ result.missing_skills = <<>>
        /\ ({"text", "culture"} \cap DOMAIN result.detailed_scores = {})
              => result.overall_score
                   = RDiv(RAdd(RAdd(Rat(35, 100), RMul(Rat(95, 100), Rat(25, 100))),
                               Rat(15, 100)),
                          Rat(75, 100))

\* C2 amended: in the scenario the scorers compute skills 1.0, experience
\* 0.95 and education 1.0 and missing_skills is []; the returned skills_score
\* and education_score are 1.0; the returned experience_score is 0.95 plus
\* the fairness adjustment clamped to 1.0, that is 1.0, and stays 0.95 only
\* when bias mitigation failed; text and culture are always in the score
\* map, and after a successful mitigation overall_score is
\* .35 + .25 + .15 + .15*text + .10*culture over the mitigated scores.
C2_ScenarioAmended ==
    (ScenarioCall /\ Returned) =>
        /\ scores["skills"] = One
        /\ scores["experience"] = Rat(95, 100)
        /\ scores["education"] = One
        /\ result.missing_skills = <<>>
        /\ result.skills_score = One
        /\ result.education_score = One
        /\ {"text", "culture"} \subseteq DOMAIN result.detailed_scores
        /\ IF IsNum(scores["culture"])
           THEN /\ result.experience_score = One
                /\ result.overall_score
                     = RAdd(Rat(75, 100),
                            RAdd(RMul(Rat(15, 100), result.detailed_scores["text"]),
                                 RMul(Rat(10, 100), result.culture_score)))
           ELSE result.experience_score = Rat(95, 100)

\* The scenario has been scored with a numeric culture value.
C2_Witness ==
    /\ ScenarioCall /\ Returned
    /\ result.experience_score = One
    /\ scores["experience"] = Rat(95, 100)
    /\ env.grok_key /\ env.grok.kind = "score"

\* C3: candidate skills and the job's combined skills non-empty and equal as
\* canonical sets (any order, case, duplicates) give skills_score 1.0.
C3_EqualSkillSetsScoreOne ==
    (Returned /\ CandidateSkills # {} /\ CandidateSkills = JobSkills)
        => result.skills_score = One

\* C4 as stated: disjoint non-empty canonical skill sets give a returned
\* skills_score of 0.0.
C4_DisjointAsStated ==
    (Returned /\ CandidateSkills # {} /\ JobSkills # {}
       /\ CandidateSkills \cap JobSkills = {})
        => result.skills_score = Zero

\* C4 amended: for disjoint non-empty canonical skill sets the skills scorer
\* computes 0.0, and the returned skills_score is 0.0 plus the
\* fairness_adjustment reported in the same result: 0.1, 0.05 for a
\* major-city location, and 0 when bias mitigation failed.
C4_DisjointAmended ==
    (Returned /\ CandidateSkills # {} /\ JobSkills # {}
       /\ CandidateSkills \cap JobSkills = {})
        => /\ scores["skills"] = Zero
           /\ result.skills_score = result.fairness_adjustment
           /\ result.skills_score
                = IF ~IsNum(scores["culture"]) THEN Zero
                  ELSE IF Lower(resume_data.candidate_location).w \in MajorCities
                       THEN Rat(5, 100) ELSE Rat(1, 10)

\* Disjoint skills have been scored for a candidate in a major city.
C4_Witness ==
    /\ Returned /\ CandidateSkills # {} /\ JobSkills # {}
    /\ CandidateSkills \cap JobSkills = {}
    /\ result.skills_score = Rat(5, 100)

\* C5: missing_skills equals, as a set, the canonical (lower-cased and
\* trimmed) job skills minus the canonical candidate skills.  Stated for the
\* calls whose insights were generated.
C5_MissingSkillsCanonical ==
    (Returned /\ ~InsightsRaise(mitigated))
        => Range(result.missing_skills) = JobSkills \ CandidateSkills

\* C6: bias mitigation never lowers a numeric dimension score and never
\* leaves one above 1.0.
C6_BiasMitigationMonotoneBounded ==
    (pc \in {"explain", "overall", "insights", "done"}) =>
        \A key \in DOMAIN scores :
            (IsNum(scores[key]) /\ key \in DOMAIN mitigated
               /\ IsNum(mitigated[key]))
                => /\ RGe(mitigated[key], scores[key])
                   /\ RLe(mitigated[key], One)

\* The weights as the claim gives them, in hundredths.
ClaimWeight(key) ==
    CASE key = "skills" -> 35
      [] key = "experience" -> 25
      [] key = "education" -> 15
      [] key = "text" -> 15
      [] key = "culture" -> 10

ClaimDimensions == {"skills", "experience", "education", "text", "culture"}

RECURSIVE ClaimWeightSum(_)
ClaimWeightSum(keys) ==
    IF keys = {} THEN 0
    ELSE LET key == CHOOSE k \in keys : TRUE
         IN  ClaimWeight(key) + ClaimWeightSum(keys \ {key})

RECURSIVE ClaimWeightedSum(_, _)
ClaimWeightedSum(map, keys) ==
    IF keys = {} THEN Zero
    ELSE LET key == CHOOSE k \in keys : TRUE
         IN  RAdd(RMul(Rat(ClaimWeight(key), 100), map[key]),
                  ClaimWeightedSum(map, keys \ {key}))

\* C7: the overall score is the sum of weight*score over the dimensions
\* present in the score map divided by the sum of their weights; absent
\* dimensions count in neither; no dimension present gives 0.0; with only
\* skills and experience present it is (skills*.35 + experience*.25) / .60.
C7_OverallIsRenormalisedMean ==
    (pc = "insights") =>
        LET present == ClaimDimensions \cap DOMAIN mitigated
        IN  /\ present = {} => overall = Zero
            /\ present # {} =>
                 RMul(overall, Rat(ClaimWeightSum(present), 100))
                   = ClaimWeightedSum(mitigated, present)
            /\ present = {"skills", "experience"} =>
                 overall = RDiv(RAdd(RMul(mitigated["skills"], Rat(35, 100)),
                                     RMul(mitigated["experience"], Rat(25, 100))),
                                Rat(60, 100))

\* Only skills (0.5) and experience (1.0) are present: overall is 17/24.
C7_Witness ==
    /\ pc = "insights"
    /\ ClaimDimensions \cap DOMAIN mitigated = {"skills", "experience"}
    /\ mitigated["skills"] = Rat(1, 2)
    /\ mitigated["experience"] = One
    /\ overall = Rat(17, 24)

\* Years as a number of half years.
InHalfYears(years) == (2 * years.n) \div years.d

\* C8: with y the candidate's years and m the job's minimum, the experience
\* score is 1.0 if m <= y <= 1.5m; max(0.7, 1 - (y - 1.5m)/10) if y > 1.5m;
\* 0.8 if 0 < m - y <= 1; 0.5 if 1 < m - y <= 3; 0.2 if m - y > 3.  In half
\* years (y = hy/2, m = hm/2): 1 - (y - 1.5m)/10 = (40 - (2hy - 3hm)) / 40.
C8_ExperienceScoreFormula ==
    ("experience" \in DOMAIN scores) =>
        LET hy == InHalfYears(resume_data.experience_years)
            hm == InHalfYears(job_data.min_experience_years)
            over == 40 - (2 * hy - 3 * hm)
            s == scores["experience"]
        IN  /\ (hm <= hy /\ 2 * hy <= 3 * hm) => s = One
            /\ (2 * hy > 3 * hm) =>
                  s = Rat(IF over > 28 THEN over ELSE 28, 40)
            /\ (0 < hm - hy /\ hm - hy <= 2) => s = Rat(8, 10)
            /\ (2 < hm - hy /\ hm - hy <= 6) => s = Rat(5, 10)
            /\ (hm - hy > 6) => s = Rat(2, 10)
            /\ (hy = 10 /\ hm = 6) => s = Rat(95, 100)
            /\ (hy = 2 /\ hm = 6) => s = Rat(5, 10)

\* One year short of the minimum has been scored 0.8.
C8_Witness ==
    /\ "experience" \in DOMAIN scores
    /\ RSub(job_data.min_experience_years, resume_data.experience_years) = One
    /\ scores["experience"] = Rat(8, 10)

\* The rank table as the claim gives it; any other level is unknown.
ClaimRank(level) ==
    CASE level.w = "high school" -> 1
      [] level.w = "associate" -> 2
      [] level.w = "bachelor" -> 3
      [] level.w = "master" -> 4
      [] level.w = "phd" -> 5
      [] OTHER -> 0

\* C9: the education score is 1.0 when candidate_rank >= job_rank and
\* max(0.3, 1.0 - (job_rank - candidate_rank)*0.2) otherwise; bachelor
\* against master scores 0.8.
C9_EducationScoreFormula ==
    ("education" \in DOMAIN scores) =>
        LET candidate_rank == ClaimRank(resume_features.education_level)
            job_rank == ClaimRank(job_features.education_level)
            tenths == 10 - 2 * (job_rank - candidate_rank)
            s == scores["education"]
        IN  /\ candidate_rank >= job_rank => s = One
            /\ candidate_rank < job_rank =>
                  s = Rat(IF tenths > 3 THEN tenths ELSE 3, 10)
            /\ (resume_features.education_level.w = "bachelor"
                  /\ job_features.education_level.w = "master")
                  => s = Rat(8, 10)

\* A candidate of unknown level against a phd job has been scored 0.3.
C9_Witness ==
    /\ "education" \in DOMAIN scores
    /\ resume_features.education_level = Plain("none")
    /\ job_features.education_level = Str("phd", TRUE, FALSE)
    /\ scores["education"] = Rat(3, 10)

\* The rank _extract_education_level gives the level it returns.
ExtractorRank(level) ==
    LET i == CHOOSE k \in 1..Len(ExtractorLevels) : ExtractorLevels[k][1] = level.w
    IN  ExtractorLevels[i][2]

\* C10: every level the normalizer returns has the same rank in the
\* education scorer, so a candidate whose highest degree is a doctorate has
\* raw education score 1.0 against every job level.
C10_SameRankInScorer ==
    ("education" \in DOMAIN scores) =>
        /\ ScorerEducationRank(resume_features.education_level)
             = ExtractorRank(resume_features.education_level)
        /\ resume_features.education_level = Plain("doctorate")
             => scores["education"] = One

\* The ranks of the keywords of _extract_education_level that occur in some
\* entry of an education list.
KeywordRanks(education) ==
    {ExtractorLevels[k][2] :
        k \in {j \in 1..Len(ExtractorLevels) :
                 \E i \in 1..Len(education) :
                    Contains(Lower(education[i]), ExtractorLevels[j][1])}}

\* C11: the level extracted from the education list is the highest-ranked
\* level whose keyword occurs in some entry, so a candidate whose only
\* matching entries are 'associate' or 'high school' is reported at that
\* level; without any matching entry the level is the default 'bachelor'.
C11_HighestKeywordLevel ==
    (pc # "extract") =>
        LET ranks == KeywordRanks(resume_data.education)
            level == resume_features.education_level
        IN  IF ranks = {} THEN level = Plain("bachelor")
            ELSE /\ ExtractorRank(level) \in ranks
                 /\ \A r \in ranks : r <= ExtractorRank(level)

\* A failing outcome of the remote culture call: an exception, a status other
\* than 200, or a body that is no JSON object carrying a number in [0, 1] as
\* its "score".
FailingGrokOutcome(outcome) ==
    \/ outcome.kind \in {"exception", "status", "malformed", "no_score"}
    \/ outcome.kind = "score" /\ ~InUnit(outcome.score)

\* C13: with the remote culture service enabled, every failing outcome of the
\* call leaves the raw culture score at exactly the keyword baseline.
C13_RemoteFailureFallsBack ==
    (env.grok_key /\ "culture" \in DOMAIN scores /\ FailingGrokOutcome(env.grok))
        => scores["culture"] = CalculateCultureBasic(resume_data.extracted_text,
                                                     job_data.description)

\* C16: in every returned result bias_score and fairness_adjustment lie in
\* [0, 0.1] and fairness_adjustment = max(0, 0.1 - bias_score), also when
\* bias mitigation failed and returned the scores it was given.
C16_FairnessComplementsBias ==
    Returned =>
        /\ IsNum(result.bias_score) /\ IsNum(result.fairness_adjustment)
        /\ RLe(Zero, result.bias_score) /\ RLe(result.bias_score, Rat(1, 10))
        /\ RLe(Zero, result.fairness_adjustment)
        /\ RLe(result.fairness_adjustment, Rat(1, 10))
        /\ result.fairness_adjustment
             = RMax(Zero, RSub(Rat(1, 10), result.bias_score))

\* The bias fields of the call that has the candidate location of this call,
\* the name, the profile and the posting of the scenario and numeric scores.
ReferenceBiasFields ==
    LET reference == ApplyBiasMitigation(
                         [key \in WeightedKeys |-> One],
                         [BaseResume EXCEPT !.candidate_name = Plain("bob"),
                                            !.candidate_location =
                                                resume_data.candidate_location])
    IN  <<reference["bias_score"], reference["fairness_adjustment"]>>

\* C17: the returned bias_score and fairness_adjustment depend on the
\* candidate location only: they equal those of any other call with the same
\* location, whatever its name, skills, experience, education, text and job.
C17_BiasFieldsDependOnLocationOnly ==
    Returned =>
        <<result.bias_score, result.fairness_adjustment>> = ReferenceBiasFields

\* The claimed required set: the canonical skills among the first
\* floor(n/2) entries of the job's combined list of n entries.
ClaimRequiredSkills ==
    LET combined == job_data.required_skills \o job_data.preferred_skills
    IN  CanonicalSkills(Prefix(combined, Len(combined) \div 2))

\* C20: the raw skills score is 0.0 when a skill list is empty; otherwise,
\* with J = |R \cap S| / |R \cup S|, it is (J + |R \cap S \cap required| /
\* |required|) / 2 clamped to [0, 1] when required is non-empty, |required|
\* counting the distinct required skills, and J when required is empty.
C20_SkillsScoreFormula ==
    ("skills" \in DOMAIN scores) =>
        LET R == CandidateSkills
            S == JobSkills
            required == ClaimRequiredSkills
            J == Rat(Cardinality(R \cap S), Cardinality(R \cup S))
            boost == Rat(Cardinality(R \cap S \cap required), Cardinality(required))
        IN  scores["skills"] =
                IF R = {} \/ S = {} THEN Zero
                ELSE IF required # {}
                     THEN RMax(Zero, RMin(One, RDiv(RAdd(J, boost), Rat(2, 1))))
                     ELSE J

\* C14: with external inference disabled the call is deterministic: from the
\* inputs (and the embedding's answer) there is one result it can return,
\* the orders of skill_matches and missing_skills and the training
\* recommendation built from the first three missing skills included.
C14_OneReturnableResult ==
    (pc = "insights" /\ ~env.grok_key) => Cardinality(ReturnableResults) = 1

\* The result field that reports a dimension of the score map.
ReportField(dimension) ==
    CASE dimension = "skills" -> "skills_score"
      [] dimension = "experience" -> "experience_score"
      [] dimension = "education" -> "education_score"
      [] dimension = "culture" -> "culture_score"

Raised == pc = "raised"

\* C15: a call whose resume_data or job_data is None fails fast with
\* InvalidInputError, and the call raises under no other condition: inputs
\* that are present, with empty or missing fields, are scored and returned.
C15_NoneInputRaisesInvalidInput ==
    /\ (resume_data = NoneValue \/ job_data = NoneValue)
          => (pc \in {"extract", "raised"}
              /\ (Raised => result = [error |-> "InvalidInputError"]))
    /\ Raised => (resume_data = NoneValue \/ job_data = NoneValue)

\* The raw scores of the scenario when no scorer fails; the culture score
\* is the answer of the remote service when it is enabled and answers, and
\* the keyword baseline of the scenario's texts, 1.0, otherwise.
ScenarioRawScores ==
    [skills |-> One, experience |-> Rat(19, 20), education |-> One,
     text |-> Rat(1, 2),
     culture |-> IF env.grok_key /\ env.grok.kind \in {"score", "no_score"}
                 THEN GrokScore(env.grok) ELSE One]

\* The call is the scenario apart from the values that make scorers fail.
ScenarioWithFailures ==
    /\ resume_data \in FailingResumes
    /\ job_data \in FailingJobs
    /\ env \in FailingEnvironments

\* The scorers that fail in the call: the experience scorer on years that
\* are no number, the education scorer on a level of None, the text scorer
\* on a failing embedding, the culture scorer on a failed remote call.
FailingScorers ==
    (IF ExperienceGapRaises(resume_data, job_data) THEN {"experience"} ELSE {})
    \cup (IF job_data.education_level = NoneValue THEN {"education"} ELSE {})
    \cup (IF env.bert.raises THEN {"text"} ELSE {})
    \cup (IF env.grok_key /\ env.grok.kind \in {"exception", "status", "malformed"}
          THEN {"culture"} ELSE {})

\* C12: when exactly one of the five scorers fails, the call does not raise,
\* the failed dimension has its default raw score (0.0 for skills,
\* experience, education and text, the keyword baseline for culture) and
\* the other four raw scores are those of the call in which it did not fail.
C12_OneScorerFailureIsolated ==
    (ScenarioWithFailures /\ Cardinality(FailingScorers) = 1) =>
        /\ ~Raised
        /\ \A key \in DOMAIN scores :
              scores[key] = IF key \in FailingScorers \ {"culture"} THEN Zero
                            ELSE ScenarioRawScores[key]

\* The embedding failed, alone: the call has returned with raw text score
\* 0.0 and the other four raw scores as in the scenario.
C12_Witness ==
    /\ Returned
    /\ ScenarioWithFailures
    /\ FailingScorers = {"text"}
    /\ scores = [ScenarioRawScores EXCEPT !["text"] = Zero]
    /\ result.skills_score = One

\* The raw scores of a call that runs alone.
AloneRawScores(rd, jd, e) ==
    LET rf == ExtractResumeFeatures(rd)
        jf == ExtractJobFeatures(jd)
    IN  [skills |-> CalculateSkillsSimilarity(rf.skills_list, jf.all_skills),
         experience |-> CalculateExperienceSimilarity(rf.experience_years,
                                                      jf.min_experience),
         education |-> CalculateEducationSimilarity(rf.education_level,
                                                    jf.education_level),
         text |-> CalculateTextSimilarity(e.bert),
         culture |-> IF e.grok_key
                     THEN CalculateCultureWithGrok(e.grok, rf.text, jf.text)
                     ELSE CalculateCultureBasic(rf.text, jf.text)]

\* The results a call that runs alone can return.
AloneResults(rd, jd, e) ==
    LET m == ApplyBiasMitigation(AloneRawScores(rd, jd, e), rd)
    IN  {MatchResult(CalculateOverallScore(m), m, GenerateExplanations(m),
                     GenerateMatchInsights(rd, jd, m, lists[1], lists[2])) :
            lists \in Orders(InsightResumeSkills(rd) \cap InsightJobSkills(jd))
                        \X Orders(InsightJobSkills(jd) \ InsightResumeSkills(rd))}

\* A call, given by its frame, has the raw scores and the result of the call
\* run alone.
AsAlone(frame) ==
    /\ frame.pc \in {"bias", "explain", "overall", "insights", "done"}
          => frame.scores
               = AloneRawScores(frame.resume_data, frame.job_data, frame.env)
    /\ frame.pc = "done"
          => frame.result
               \in AloneResults(frame.resume_data, frame.job_data, frame.env)

\* The arguments of the calls in progress.
CallArguments ==
    {<<resume_data, job_data>>}
    \cup (IF suspended = NoFrame THEN {}
          ELSE {<<suspended.resume_data, suspended.job_data>>})

MitigationStarted ==
    \/ pc \in {"explain", "overall", "insights", "done"}
    \/ mitigated # EmptyMap
    \/ explanations # EmptyMap

\* C21: bias mitigation and score aggregation start only after the five
\* scorers have each stored their score or their default: a step of bias
\* mitigation is taken with all five raw scores present and no remote
\* culture call pending, and nothing of it exists before.
C21_ScorersBeforeMitigation ==
    /\ [](MitigationStarted => ClaimDimensions \subseteq DOMAIN scores)
    /\ [][(mitigated' # mitigated \/ overall' # overall)
             => (pc \notin {"skills", "experience", "education", "text",
                            "culture", "await_grok"}
                 /\ ClaimDimensions \subseteq DOMAIN scores)]_vars

\* Bias mitigation has run after a remote culture call that was answered.
C21_Witness ==
    /\ pc = "explain"
    /\ env.grok_key
    /\ grok_requests = 1
    /\ DOMAIN scores = ClaimDimensions
    /\ "fairness_adjustment" \in DOMAIN mitigated

\* C22: a call sends at most one request to the remote culture service;
\* when that call fails, the step that follows stores the keyword baseline
\* as the culture score and goes on to bias mitigation, and no request is
\* sent afterwards.
C22_NoRetry ==
    /\ [](grok_requests <= 1)
    /\ [][(pc = "await_grok" /\ env.grok.kind \notin {"score", "no_score"})
             => /\ pc' = "bias"
                /\ grok_requests' = grok_requests
                /\ scores' = Put(scores, "culture",
                                 CalculateCultureBasic(resume_features.text,
                                                       job_features.text))]_vars
    /\ [][grok_requests' # grok_requests
             => (pc = "culture" /\ grok_requests = 0)]_vars

\* The one request failed with an exception and the call has returned with
\* the keyword baseline of the scenario's texts as its raw culture score.
C22_Witness ==
    /\ Returned
    /\ env.grok_key
    /\ env.grok.kind = "exception"
    /\ grok_requests = 1
    /\ resume_data.extracted_text = {Plain("teamwork")}
    /\ job_data.description = {Plain("teamwork"), Plain("sales")}
    /\ scores["culture"] = One

\* The soft skills of the vocabulary that occur in a text, whatever the case
\* they are written in.
ClaimSoftSkillsIn(text) ==
    {skill \in Range(SoftSkills) : \E word \in text : word.w = skill}

\* C23: the culture baseline is the number of soft skills occurring in both
\* texts divided by the number of soft skills occurring in the job text,
\* 0.5 when the job text has none; matching ignores case and the value is
\* in [0, 1].
C23_CultureBaselineFormula ==
    ("culture" \in DOMAIN scores) =>
        LET in_job == ClaimSoftSkillsIn(job_features.text)
            in_both == in_job \cap ClaimSoftSkillsIn(resume_features.text)
        IN  /\ scores["culture"] =
                 IF in_job = {} THEN Rat(1, 2)
                 ELSE Rat(Cardinality(in_both), Cardinality(in_job))
            /\ InUnit(scores["culture"])

\* The job text names Leadership and teamwork, the resume text teamwork
\* only: the baseline is 1/2.
C23_Witness ==
    /\ "culture" \in DOMAIN scores
    /\ job_features.text = {Str("leadership", TRUE, FALSE), Plain("teamwork")}
    /\ resume_features.text = {Plain("teamwork"), Plain("sales")}
    /\ scores["culture"] = Rat(1, 2)

\* The overall score of the mitigated map: the weighted mean of the
\* dimensions present in it, 0.0 when none is.
ExplainedOverall ==
    LET present == ClaimDimensions \cap DOMAIN mitigated
    IN  IF present = {} THEN Zero
        ELSE RDiv(ClaimWeightedSum(mitigated, present),
                  Rat(ClaimWeightSum(present), 100))

\* The tier the claim gives an overall score v = n/d, by integer comparison.
ClaimTier(v) ==
    IF 10 * v.n >= 8 * v.d THEN "excellent"
    ELSE IF 10 * v.n >= 6 * v.d THEN "good"
    ELSE IF 10 * v.n >= 4 * v.d THEN "moderate"
    ELSE "limited"

\* C24: the overall explanation is the excellent text for an overall score
\* >= 0.8, the good text for >= 0.6, the moderate text for >= 0.4 and the
\* limited text below; 0.8, 0.6 and 0.4 themselves fall in the higher tier.
C24_OverallExplanationTiers ==
    ("overall" \in DOMAIN explanations) =>
        /\ explanations["overall"] = ClaimTier(ExplainedOverall)
        /\ ExplainedOverall = Rat(8, 10) => explanations["overall"] = "excellent"
        /\ ExplainedOverall = Rat(6, 10) => explanations["overall"] = "good"
        /\ ExplainedOverall = Rat(4, 10) => explanations["overall"] = "moderate"

\* An overall score of exactly 0.6 has been given the good-match text.
C24_Witness ==
    /\ mitigated = [k \in {"skills"} |-> Rat(6, 10)]
    /\ "overall" \in DOMAIN explanations
    /\ explanations["overall"] = "good"

\* C25: the returned experience_gap is max(0, min_experience_years -
\* experience_years), never negative, and the recommendations hold the
\* recommendation to gain more years of experience exactly when it is > 0.
C25_ExperienceGapAndRecommendation ==
    Returned =>
        LET lacking == RSub(job_data.min_experience_years,
                            resume_data.experience_years)
            gap == IF RGt(lacking, Zero) THEN lacking ELSE Zero
            advised == \E i \in 1..Len(result.recommendations) :
                          result.recommendations[i].kind = "experience"
        IN  /\ result.experience_gap = gap
            /\ RGe(result.experience_gap, Zero)
            /\ advised <=> RGt(result.experience_gap, Zero)
            /\ advised <=> RGt(lacking, Zero)

\* The dimensions of a list of strengths or weaknesses are in the order
\* skills, experience, culture, each at most once.
InInsightOrder(list) ==
    list \in {<<>>, <<"skills">>, <<"experience">>, <<"culture">>,
              <<"skills", "experience">>, <<"skills", "culture">>,
              <<"experience", "culture">>,
              <<"skills", "experience", "culture">>}

\* C26: in a result produced without an insight failure each of skills,
\* experience and culture gives one sentence, a strength when its mitigated
\* score is >= 0.7 and a weakness below, so the two lists hold three
\* sentences together, each list in the order skills, experience, culture.
C26_ThreeStrengthsOrWeaknesses ==
    (Returned /\ ~InsightsRaise(mitigated)) =>
        /\ \A key \in {"skills", "experience", "culture"} :
              LET score == result.detailed_scores[key]
              IN  IF 10 * score.n >= 7 * score.d
                  THEN key \in Range(result.strengths)
                         /\ key \notin Range(result.weaknesses)
                  ELSE key \in Range(result.weaknesses)
                         /\ key \notin Range(result.strengths)
        /\ Len(result.strengths) + Len(result.weaknesses) = 3
        /\ InInsightOrder(result.strengths)
        /\ InInsightOrder(result.weaknesses)

\* Skills and culture are strengths and experience, at 0.6, is the weakness.
C26_Witness ==
    /\ Returned
    /\ result.strengths = <<"skills", "culture">>
    /\ result.weaknesses = <<"experience">>
    /\ result.experience_score = Rat(6, 10)

\* C27: in every result match_explanation is the tier text of the
\* overall_score returned in the same result; a result with overall_score
\* >= 0.8 carries the excellent text and no other.
C27_ExplanationAgreesWithOverall ==
    Returned =>
        /\ IsNum(result.overall_score)
        /\ result.match_explanation = ClaimTier(result.overall_score)
        /\ RGe(result.overall_score, Rat(8, 10))
              => result.match_explanation = "excellent"

\* A result with an overall score of at least 0.8 and the excellent text,
\* its raw scores averaging below 0.8.
C27_Witness ==
    /\ Returned
    /\ RGe(result.overall_score, Rat(8, 10))
    /\ RLt(CalculateOverallScore(scores), Rat(8, 10))
    /\ result.match_explanation = "excellent"


(***************************************************************************)
(* The endpoints over the database                                         *)
(***************************************************************************)
MaxRecords == 5    \* rows written to the tables in one run

\* The rows written so far.
RowsWritten ==
    Cardinality(db.users) + db.job_seq + Cardinality(db.resumes)
        + Cardinality(db.matches)

\* The matching engine's state: no endpoint calls the engine (create_match
\* stores placeholder scores), so requests leave it alone.
engine == <<resume_data, job_data, env, pc, resume_features, job_features,
            scores, mitigated, explanations, overall, result,
            grok_requests, suspended>>

\* The worker processes free to take a request.  A handler has no await
\* between its statements, so a process runs it to its end before it takes
\* another request; handlers of different processes interleave at their
\* database statements.
IdleWorkers == {w \in DOMAIN handlers : handlers[w].user_id = 0}

\* The response to an exception raised in a handler's try block, raised
\* being the status of the HTTPException (0: another exception).  A handler
\* with an `except HTTPException: raise` clause lets an HTTPException
\* through; `except Exception` answers anything else with the handler's own
\* 500.  The application's handler for status 404 then answers every 404
\* with its own detail.
Raise(endpoint, user_id, args, raised, detail, reraises, failure) ==
    LET status == IF raised # 0 /\ reraises THEN raised ELSE 500
    IN  [endpoint |-> endpoint, user_id |-> user_id, args |-> args,
         raised |-> raised, status |-> status,
         detail |-> IF status = 404 THEN "Endpoint not found"
                    ELSE IF status = 500 THEN failure ELSE detail,
         records |-> {}]

\* The response of a handler that returns: records are the rows it read or
\* wrote for the caller.
Return(endpoint, user_id, args, records) ==
    [endpoint |-> endpoint, user_id |-> user_id, args |-> args, raised |-> 0,
     status |-> 200, detail |-> "ok", records |-> records]

\* POST /register.  Two e-mail addresses register, named by number, and the
\* row of an address gets that number as its id; every user registers the
\* password "p".  The only except clause is `except Exception`.
Register ==
    \E email \in {1, 2} :
        LET existing_user == {u \in db.users : u.email = email}
            user == [id |-> email, email |-> email,
                     hashed_password |-> <<"hash", "p">>, is_active |-> TRUE]
        IN  /\ IdleWorkers # {}
            /\ existing_user = {} => RowsWritten < MaxRecords
            /\ IF existing_user # {}
               THEN /\ response' = Raise("register", 0, <<email>>, 400,
                                         "Email already registered", FALSE,
                                         "Registration failed")
                    /\ db' = db
               ELSE /\ db' = [db EXCEPT !.users = @ \cup {user}]
                    /\ response' = Return("register", user.id, <<email>>, {})
            /\ UNCHANGED <<engine, handlers>>

\* POST /login.  authenticate_user answers the user of that e-mail address
\* and password, or nothing.
Login ==
    \E email \in {1, 2}, password \in {"p", "q"} :
        LET user == {u \in db.users :
                        /\ u.email = email
                        /\ u.hashed_password = <<"hash", password>>}
        IN  /\ IdleWorkers # {}
            /\ response' =
                 IF user = {}
                 THEN Raise("login", 0, <<email>>, 401,
                            "Incorrect email or password", TRUE, "Login failed")
                 ELSE IF \E u \in user : ~u.is_active
                 THEN Raise("login", 0, <<email>>, 400, "Inactive user", TRUE,
                            "Login failed")
                 ELSE Return("login", (CHOOSE u \in user : TRUE).id,
                             <<email>>, {})
            /\ UNCHANGED <<engine, db, handlers>>

\* POST /jobs/
CreateJob ==
    \E current_user \in db.users :
        LET job == [id |-> db.job_seq + 1, user_id |-> current_user.id,
                    is_active |-> TRUE]
        IN  /\ IdleWorkers # {}
            /\ RowsWritten < MaxRecords
            /\ db' = [db EXCEPT !.jobs = @ \cup {job}, !.job_seq = @ + 1]
            /\ response' = Return("create_job", current_user.id, <<job.id>>,
                                  {job})
            /\ UNCHANGED <<engine, handlers>>

\* GET /jobs/ with the default skip and limit
GetJobs ==
    \E current_user \in db.users, active_only \in BOOLEAN :
        LET jobs == {j \in db.jobs :
                        /\ j.user_id = current_user.id
                        /\ active_only => j.is_active}
        IN  /\ IdleWorkers # {}
            /\ response' = Return("get_jobs", current_user.id, <<>>, jobs)
            /\ UNCHANGED <<engine, db, handlers>>

\* GET /jobs/{job_id}
GetJob ==
    \E current_user \in db.users, job_id \in 0..db.job_seq :
        LET job == {j \in db.jobs :
                       j.id = job_id /\ j.user_id = current_user.id}
        IN  /\ IdleWorkers # {}
            /\ response' =
                 IF job = {}
                 THEN Raise("get_job", current_user.id, <<job_id>>, 404,
                            "Job not found", TRUE, "Failed to get job")
                 ELSE Return("get_job", current_user.id, <<job_id>>, job)
            /\ UNCHANGED <<engine, db, handlers>>

\* update_job with a query that leaves out Job.user_id == current_user.id.
UpdateJobOfAnyOwner ==
    \E current_user \in db.users, job_id \in 0..db.job_seq,
       update_data \in UNION {[fields -> BOOLEAN] :
                                 fields \in SUBSET {"is_active"}} :
        LET job == {j \in db.jobs : j.id = job_id}
            updated == {[j EXCEPT !.is_active =
                                    Get(update_data, "is_active", @)] :
                           j \in job}
        IN  /\ IdleWorkers # {}
            /\ IF job = {}
               THEN /\ response' = Raise("update_job", current_user.id,
                                         <<job_id>>, 404, "Job not found",
                                         TRUE, "Failed to update job")
                    /\ db' = db
               ELSE /\ db' = [db EXCEPT !.jobs = (@ \ job) \cup updated]
                    /\ response' = Return("update_job", current_user.id,
                                          <<job_id>>, updated)
            /\ UNCHANGED <<engine, handlers>>

\* PUT /jobs/{job_id}: update_data holds the fields the request sets.
UpdateJob ==
    \E current_user \in db.users, job_id \in 0..db.job_seq,
       update_data \in UNION {[fields -> BOOLEAN] :
                                 fields \in SUBSET {"is_active"}} :
        LET job == {j \in db.jobs :
                       j.id = job_id /\ j.user_id = current_user.id}
            updated == {[j EXCEPT !.is_active =
                                    Get(update_data, "is_active", @)] :
                           j \in job}
        IN  /\ IdleWorkers # {}
            /\ IF job = {}
               THEN /\ response' = Raise("update_job", current_user.id,
                                         <<job_id>>, 404, "Job not found",
                                         TRUE, "Failed to update job")
                    /\ db' = db
               ELSE /\ db' = [db EXCEPT !.jobs = (@ \ job) \cup updated]
                    /\ response' = Return("update_job", current_user.id,
                                          <<job_id>>, updated)
            /\ UNCHANGED <<engine, handlers>>

\* DELETE /jobs/{job_id}: db.delete names the job alone.
DeleteJob ==
    \E current_user \in db.users, job_id \in 0..db.job_seq :
        LET job == {j \in db.jobs :
                       j.id = job_id /\ j.user_id = current_user.id}
        IN  /\ IdleWorkers # {}
            /\ IF job = {}
               THEN /\ response' = Raise("delete_job", current_user.id,
                                         <<job_id>>, 404, "Job not found",
                                         TRUE, "Failed to delete job")
                    /\ db' = db
               ELSE /\ db' = [db EXCEPT !.jobs = @ \ job]
                    /\ response' = Return("delete_job", current_user.id,
                                          <<job_id>>, job)
            /\ UNCHANGED <<engine, handlers>>

\* POST /resumes/upload: extension is what follows the last dot of the
\* lower-cased file name.
UploadResume ==
    \E current_user \in db.users, extension \in {"pdf", "docx", "doc", "txt"} :
        LET resume == [id |-> Cardinality(db.resumes) + 1,
                       user_id |-> current_user.id]
        IN  /\ IdleWorkers # {}
            /\ extension \in {"pdf", "docx", "doc"} => RowsWritten < MaxRecords
            /\ IF extension \notin {"pdf", "docx", "doc"}
               THEN /\ response' = Raise("upload_resume", current_user.id,
                                         <<>>, 400,
                                         "Only PDF, DOCX, and DOC files are allowed",
                                         TRUE, "Failed to upload resume")
                    /\ db' = db
               ELSE /\ db' = [db EXCEPT !.resumes = @ \cup {resume}]
                    /\ response' = Return("upload_resume", current_user.id,
                                          <<resume.id>>, {resume})
            /\ UNCHANGED <<engine, handlers>>

\* GET /resumes/ with the default skip and limit
GetResumes ==
    \E current_user \in db.users :
        /\ IdleWorkers # {}
        /\ response' = Return("get_resumes", current_user.id, <<>>,
                              {r \in db.resumes : r.user_id = current_user.id})
        /\ UNCHANGED <<engine, db, handlers>>

\* GET /resumes/{resume_id}
GetResume ==
    \E current_user \in db.users, resume_id \in 0..Cardinality(db.resumes) :
        LET resume == {r \in db.resumes :
                          r.id = resume_id /\ r.user_id = current_user.id}
        IN  /\ IdleWorkers # {}
            /\ response' =
                 IF resume = {}
                 THEN Raise("get_resume", current_user.id, <<resume_id>>, 404,
                            "Resume not found", TRUE, "Failed to get resume")
                 ELSE Return("get_resume", current_user.id, <<resume_id>>,
                             resume)
            /\ UNCHANGED <<engine, db, handlers>>

\* POST /matches/resume/{resume_id}/job/{job_id}, up to the query for an
\* existing match: the handler that passes it goes on to CommitMatch.
CreateMatch ==
    \E current_user \in db.users, resume_id \in 0..Cardinality(db.resumes),
       job_id \in 0..db.job_seq, w \in IdleWorkers :
        LET resume == {r \in db.resumes :
                          r.id = resume_id /\ r.user_id = current_user.id}
            job == {j \in db.jobs :
                       j.id = job_id /\ j.user_id = current_user.id}
            existing_match == {m \in db.matches :
                                  /\ m.resume_id = resume_id
                                  /\ m.job_id = job_id
                                  /\ m.user_id = current_user.id}
            args == <<resume_id, job_id>>
        IN  /\ IF resume = {}
               THEN /\ response' = Raise("create_match", current_user.id, args,
                                         404, "Resume not found", TRUE,
                                         "Failed to create match")
                    /\ handlers' = handlers
               ELSE IF job = {}
               THEN /\ response' = Raise("create_match", current_user.id, args,
                                         404, "Job not found", TRUE,
                                         "Failed to create match")
                    /\ handlers' = handlers
               ELSE IF existing_match # {}
               THEN /\ response' = Raise("create_match", current_user.id, args,
                                         400, "Match already exists", TRUE,
                                         "Failed to create match")
                    /\ handlers' = handlers
               ELSE /\ handlers' = [handlers EXCEPT ![w] =
                                       [user_id |-> current_user.id,
                                        resume_id |-> resume_id,
                                        job_id |-> job_id]]
                    /\ response' = response
            /\ UNCHANGED <<engine, db>>

\* create_match from db.add(match) on.  A matches table that refuses the
\* second row of a user, resume and job fails the commit, which `except
\* Exception` answers with the handler's 500 after the rollback.
CommitMatch ==
    \E w \in DOMAIN handlers \ IdleWorkers :
        LET match == [id |-> Cardinality(db.matches) + 1,
                      user_id |-> handlers[w].user_id,
                      resume_id |-> handlers[w].resume_id,
                      job_id |-> handlers[w].job_id]
            args == <<match.resume_id, match.job_id>>
            refused == /\ db.unique_matches
                       /\ \E m \in db.matches :
                              /\ m.user_id = match.user_id
                              /\ m.resume_id = match.resume_id
                              /\ m.job_id = match.job_id
        IN  /\ ~refused => RowsWritten < MaxRecords
            /\ IF refused
               THEN /\ response' = Raise("create_match", match.user_id, args,
                                         0, "IntegrityError", TRUE,
                                         "Failed to create match")
                    /\ db' = db
               ELSE /\ db' = [db EXCEPT !.matches = @ \cup {match}]
                    /\ response' = Return("create_match", match.user_id, args,
                                          {match})
            /\ handlers' = [handlers EXCEPT ![w] =
                               [user_id |-> 0, resume_id |-> 0, job_id |-> 0]]
            /\ UNCHANGED engine

\* GET /matches/ with the default skip and limit
GetMatches ==
    \E current_user \in db.users :
        /\ IdleWorkers # {}
        /\ response' = Return("get_matches", current_user.id, <<>>,
                              {m \in db.matches : m.user_id = current_user.id})
        /\ UNCHANGED <<engine, db, handlers>>

\* GET /matches/{match_id}
GetMatch ==
    \E current_user \in db.users, match_id \in 0..Cardinality(db.matches) :
        LET match == {m \in db.matches :
                         m.id = match_id /\ m.user_id = current_user.id}
        IN  /\ IdleWorkers # {}
            /\ response' =
                 IF match = {}
                 THEN Raise("get_match", current_user.id, <<match_id>>, 404,
                            "Match not found", TRUE, "Failed to get match")
                 ELSE Return("get_match", current_user.id, <<match_id>>, match)
            /\ UNCHANGED <<engine, db, handlers>>

\* The server after startup, before any request: the engine is idle, the
\* tables are empty; the matches table may or may not carry a uniqueness
\* constraint, and two worker processes serve the one database.
InitApi ==
    \E unique_matches \in BOOLEAN :
        /\ StoreAfterStartup(unique_matches, 2)
        /\ resume_data = NoneValue
        /\ job_data = NoneValue
        /\ env = BaseEnv
        /\ pc = "idle"
        /\ resume_features = NoFeatures
        /\ job_features = NoFeatures
        /\ scores = EmptyMap
        /\ mitigated = EmptyMap
        /\ explanations = EmptyMap
        /\ overall = Zero
        /\ result = EmptyMap
        /\ grok_requests = 0
        /\ suspended = NoFrame

NextApi ==
    \/ Register
    \/ Login
    \/ CreateJob
    \/ GetJobs
    \/ GetJob
    \/ UpdateJob
    \/ DeleteJob
    \/ UploadResume
    \/ GetResumes
    \/ GetResume
    \/ CreateMatch
    \/ CommitMatch
    \/ GetMatches
    \/ GetMatch

SpecApi == InitApi /\ [][NextApi]_vars


\* The server run as main.py runs it, with one worker process: the requests
\* are served one after the other.
InitSequential ==
    \E unique_matches \in BOOLEAN :
        /\ StoreAfterStartup(unique_matches, 1)
        /\ resume_data = NoneValue
        /\ job_data = NoneValue
        /\ env = BaseEnv
        /\ pc = "idle"
        /\ resume_features = NoFeatures
        /\ job_features = NoFeatures
        /\ scores = EmptyMap
        /\ mitigated = EmptyMap
        /\ explanations = EmptyMap
        /\ overall = Zero
        /\ result = EmptyMap
        /\ grok_requests = 0
        /\ suspended = NoFrame

SpecSequential == InitSequential /\ [][NextApi]_vars


(***************************************************************************)
(* Properties of the endpoints                                             *)
(***************************************************************************)
\* C28: an HTTPException with a client-error status raised in a handler
\* reaches the caller with that status and is never answered as a 500:
\* whatever the endpoint, the status of the response is the status that was
\* raised.
C28_ClientErrorKeepsStatus ==
    response.raised \in 400..499 => response.status = response.raised

\* The rows of the tables a request of the user may not touch: those of the
\* other users.
RowsOfOthers(user_id) ==
    {j \in db.jobs : j.user_id # user_id}
        \cup {r \in db.resumes : r.user_id # user_id}
        \cup {m \in db.matches : m.user_id # user_id}

\* The last request named, by its id, a row of another user.
NamesRowOfAnother ==
    \/ /\ response.endpoint \in {"get_job", "update_job", "delete_job"}
       /\ \E j \in db.jobs :
              j.id = response.args[1] /\ j.user_id # response.user_id
    \/ /\ response.endpoint = "get_resume"
       /\ \E r \in db.resumes :
              r.id = response.args[1] /\ r.user_id # response.user_id
    \/ /\ response.endpoint = "get_match"
       /\ \E m \in db.matches :
              m.id = response.args[1] /\ m.user_id # response.user_id
    \/ /\ response.endpoint = "create_match"
       /\ \/ \E r \in db.resumes :
                r.id = response.args[1] /\ r.user_id # response.user_id
          \/ \E j \in db.jobs :
                j.id = response.args[2] /\ j.user_id # response.user_id

\* C29: served one after the other, the requests keep the users apart: the
\* rows a response returns or reports as written belong to the requesting
\* user, a request that names another user's row is answered 404,
\* create_match succeeds only for a resume and a job of the requesting
\* user, and no request changes or removes a row of a user other than the
\* requesting one.
C29_OwnershipIsolation ==
    /\ [](/\ \A row \in response.records : row.user_id = response.user_id
          /\ NamesRowOfAnother => response.status = 404
          /\ (response.endpoint = "create_match" /\ response.status = 200)
                => /\ \E r \in db.resumes :
                          /\ r.id = response.args[1]
                          /\ r.user_id = response.user_id
                   /\ \E j \in db.jobs :
                          /\ j.id = response.args[2]
                          /\ j.user_id = response.user_id)
    /\ [][/\ RowsOfOthers(response'.user_id) \subseteq
                db'.jobs \cup db'.resumes \cup db'.matches
          /\ db.users \subseteq db'.users]_vars

\* A user asked to update a job of another user and was answered 404.
C29_Witness ==
    /\ response.endpoint = "update_job"
    /\ response.status = 404
    /\ \E j \in db.jobs :
           j.id = response.args[1] /\ j.user_id # response.user_id

\* C30: the store never holds two matches of the same user, resume and job,
\* and a create_match request for a resume and a job of its user that finds
\* their match in the store (a row it did not write itself) is answered 400
\* 'Match already exists'.
C30_OneMatchPerResumeAndJob ==
    /\ \A m1, m2 \in db.matches :
           (/\ m1.user_id = m2.user_id
            /\ m1.resume_id = m2.resume_id
            /\ m1.job_id = m2.job_id) => m1 = m2
    /\ (/\ response.endpoint = "create_match"
        /\ \E r \in db.resumes :
               r.id = response.args[1] /\ r.user_id = response.user_id
        /\ \E j \in db.jobs :
               j.id = response.args[2] /\ j.user_id = response.user_id
        /\ \E m \in db.matches \ response.records :
               /\ m.user_id = response.user_id
               /\ m.resume_id = response.args[1]
               /\ m.job_id = response.args[2])
          => /\ response.status = 400
             /\ response.detail = "Match already exists"
=============================================================================
